---- MODULE Spec2Model ----
(***************************************************************************)
(* Feature-tensor identity layer of catboost/cuda/data/feature.h:          *)
(* TBinarySplit, TFeatureTensor and TCtr.  Two tensor objects, t and u, are *)
(* built by the Add* mutators and inspected by the const queries.          *)
(* obj[o] is the object's value; added[o] records every element the        *)
(* mutators have pushed into o since its construction; last names the      *)
(* latest call (Spec), or stays Untracked when the calls are not recorded  *)
(* (SpecValues).                                                           *)
(***************************************************************************)
EXTENDS Integers, Sequences, FiniteSets, TLC

VARIABLES obj, added, last

vars == <<obj, added, last>>

\* ---------------------------------------------------------------- bounds
MaxFeatureId == 1
MaxBinIdx == 1
MaxCatFeature == 1
MaxListLen == 2
MaxElements == 3
MaxPerTensor == 2
MaxConfig == 1

\* ------------------------------------------------------- EBinSplitType
TakeBin == 0
TakeGreater == 1

EBinSplitType == {TakeBin, TakeGreater}

Objs == {"t", "u"}

Other(o) == IF o = "t" THEN "u" ELSE "t"

\* ---------------------------------------------------------- TBinarySplit
TBinarySplit(featureId, binIdx, splitType) ==
    [FeatureId |-> featureId, BinIdx |-> binIdx, SplitType |-> splitType]

BinarySplits ==
    {TBinarySplit(f, b, s) : f \in 0..MaxFeatureId, b \in 0..MaxBinIdx, s \in EBinSplitType}

CatFeatureIds == 0..MaxCatFeature

\* variant: the tie lists BinIdx before FeatureId
BinarySplitLessBinIdxFirst(a, b) ==
    \/ a.BinIdx < b.BinIdx
    \/ /\ ~(b.BinIdx < a.BinIdx)
       /\ \/ a.FeatureId < b.FeatureId
          \/ /\ ~(b.FeatureId < a.FeatureId)
             /\ a.SplitType < b.SplitType

\* std::tie(...) < std::tie(...): lexicographic, built from < on the fields only
BinarySplitLess(a, b) ==
    \/ a.FeatureId < b.FeatureId
    \/ /\ ~(b.FeatureId < a.FeatureId)
       /\ \/ a.BinIdx < b.BinIdx
          \/ /\ ~(b.BinIdx < a.BinIdx)
             /\ a.SplitType < b.SplitType

\* std::tie(...) == std::tie(...): every field equal
BinarySplitEq(a, b) ==
    /\ a.FeatureId = b.FeatureId
    /\ a.BinIdx = b.BinIdx
    /\ a.SplitType = b.SplitType

\* ---------------------------------------------------------------- hashing
HashMod == 251

CombineHashes(h, x) == (31 * h + x + 1) % HashMod

MultiHash3(a, b, c) == CombineHashes(CombineHashes(CombineHashes(0, a), b), c)

MultiHash2(a, b) == CombineHashes(CombineHashes(0, a), b)

BinarySplitGetHash(s) == MultiHash3(s.FeatureId, s.BinIdx, s.SplitType)

RECURSIVE TVecHash(_)
TVecHash(v) ==
    IF v = <<>> THEN 17
    ELSE CombineHashes(TVecHash(SubSeq(v, 1, Len(v) - 1)), BinarySplitGetHash(v[Len(v)]))

RECURSIVE VecCityHash(_)
VecCityHash(v) ==
    IF v = <<>> THEN 23
    ELSE CombineHashes(VecCityHash(SubSeq(v, 1, Len(v) - 1)), v[Len(v)])

\* ------------------------------------------------------- Sort and Unique
RECURSIVE InsertSplit(_, _)
InsertSplit(sorted, x) ==
    IF sorted = <<>> THEN <<x>>
    ELSE IF BinarySplitLess(x, Head(sorted)) THEN <<x>> \o sorted
    ELSE <<Head(sorted)>> \o InsertSplit(Tail(sorted), x)

RECURSIVE SortSplits(_)
SortSplits(v) ==
    IF v = <<>> THEN <<>>
    ELSE InsertSplit(SortSplits(SubSeq(v, 1, Len(v) - 1)), v[Len(v)])

RECURSIVE InsertCatFeature(_, _)
InsertCatFeature(sorted, x) ==
    IF sorted = <<>> THEN <<x>>
    ELSE IF x < Head(sorted) THEN <<x>> \o sorted
    ELSE <<Head(sorted)>> \o InsertCatFeature(Tail(sorted), x)

RECURSIVE SortCatFeatures(_)
SortCatFeatures(v) ==
    IF v = <<>> THEN <<>>
    ELSE InsertCatFeature(SortCatFeatures(SubSeq(v, 1, Len(v) - 1)), v[Len(v)])

\* std::unique + resize: drops every element equal to its predecessor
RECURSIVE Unique(_)
Unique(vector) ==
    IF Len(vector) <= 1 THEN vector
    ELSE LET init == Unique(SubSeq(vector, 1, Len(vector) - 1))
         IN  IF vector[Len(vector)] = vector[Len(vector) - 1]
             THEN init
             ELSE Append(init, vector[Len(vector)])

\* -------------------------------------------------------- TFeatureTensor
EmptyTensor == [Splits |-> <<>>, CatFeatures |-> <<>>]

\* variants: Unique without the Sort before it
UniqueSplitsUnsorted(Splits) == Unique(Splits)

UniqueCatFeaturesUnsorted(CatFeatures) == Unique(CatFeatures)

\* SortUniqueSplits() and SortUniqueCatFeatures(), as functions of the member
\* vector they rewrite
SortUniqueSplits(Splits) == Unique(SortSplits(Splits))

SortUniqueCatFeatures(CatFeatures) == Unique(SortCatFeatures(CatFeatures))

AddBinarySplit(tensor, bin) ==
    [Splits |-> SortUniqueSplits(Append(tensor.Splits, bin)),
     CatFeatures |-> tensor.CatFeatures]

\* variant: the list overload also resets CatFeatures
AddBinarySplitListResetting(tensor, splits) ==
    [Splits |-> SortUniqueSplits(tensor.Splits \o splits),
     CatFeatures |-> <<>>]

AddBinarySplitList(tensor, splits) ==
    [Splits |-> SortUniqueSplits(tensor.Splits \o splits),
     CatFeatures |-> tensor.CatFeatures]

AddCatFeatureList(tensor, featureIds) ==
    [Splits |-> tensor.Splits,
     CatFeatures |-> SortUniqueCatFeatures(tensor.CatFeatures \o featureIds)]

\* variant: the id is assigned to CatFeatures instead of pushed
AddCatFeatureAssigning(tensor, featureId) ==
    [Splits |-> tensor.Splits,
     CatFeatures |-> SortUniqueCatFeatures(<<featureId>>)]

AddCatFeature(tensor, featureId) ==
    [Splits |-> tensor.Splits,
     CatFeatures |-> SortUniqueCatFeatures(Append(tensor.CatFeatures, featureId))]

\* variant: AddTensor without its SortUniqueCatFeatures() call
AddTensorPushedSplitsOnly(self, pushedSplits, pushedCatFeatures) ==
    [Splits |-> SortUniqueSplits(self.Splits \o pushedSplits),
     CatFeatures |-> self.CatFeatures \o pushedCatFeatures]

\* the two loops push pushedSplits and pushedCatFeatures (the argument's vectors
\* as the loops read them), then both vectors are canonicalized
AddTensorPushed(self, pushedSplits, pushedCatFeatures) ==
    [Splits |-> SortUniqueSplits(self.Splits \o pushedSplits),
     CatFeatures |-> SortUniqueCatFeatures(self.CatFeatures \o pushedCatFeatures)]

AddTensor(self, tensor) == AddTensorPushed(self, tensor.Splits, tensor.CatFeatures)

IsSimple(tensor) == (Len(tensor.Splits) + Len(tensor.CatFeatures)) = 1

IsEmpty(tensor) == Len(tensor.CatFeatures) = 0 /\ Len(tensor.Splits) = 0

Size(tensor) == Len(tensor.CatFeatures) + Len(tensor.Splits)

Min(a, b) == IF b < a THEN b ELSE a

\* variant: every split counts
GetComplexityAllSplits(tensor) == Len(tensor.CatFeatures) + Len(tensor.Splits)

GetComplexity(tensor) == Len(tensor.CatFeatures) + Min(Len(tensor.Splits), 1)

TensorEq(self, other) ==
    (self.Splits = other.Splits) /\ (self.CatFeatures = other.CatFeatures)

GetHash(tensor) == MultiHash2(TVecHash(tensor.Splits), VecCityHash(tensor.CatFeatures))

\* operator< of TVector: std::lexicographical_compare with the element's <
RECURSIVE SplitsLess(_, _)
SplitsLess(a, b) ==
    IF b = <<>> THEN FALSE
    ELSE IF a = <<>> THEN TRUE
    ELSE IF BinarySplitLess(Head(a), Head(b)) THEN TRUE
    ELSE IF BinarySplitLess(Head(b), Head(a)) THEN FALSE
    ELSE SplitsLess(Tail(a), Tail(b))

RECURSIVE CatFeaturesLess(_, _)
CatFeaturesLess(a, b) ==
    IF b = <<>> THEN FALSE
    ELSE IF a = <<>> THEN TRUE
    ELSE IF Head(a) < Head(b) THEN TRUE
    ELSE IF Head(b) < Head(a) THEN FALSE
    ELSE CatFeaturesLess(Tail(a), Tail(b))

TensorLess(self, other) ==
    \/ SplitsLess(self.Splits, other.Splits)
    \/ /\ ~SplitsLess(other.Splits, self.Splits)
       /\ CatFeaturesLess(self.CatFeatures, other.CatFeatures)

\* NCatboostCuda::IsSubset(subset, set) of helpers.h
IsSubsetVec(subset, set) ==
    \A i \in DOMAIN subset : \E j \in DOMAIN set : set[j] = subset[i]

\* variant: only the splits are compared
IsSubsetSplitsOnly(self, other) == IsSubsetVec(self.Splits, other.Splits)

IsSubset(self, other) ==
    IsSubsetVec(self.Splits, other.Splits) /\ IsSubsetVec(self.CatFeatures, other.CatFeatures)

\* ------------------------------------------------------------------ TCtr
Configurations == 0..MaxConfig

ConfigEq(a, b) == a = b

ConfigLess(a, b) == a < b

TCtr(tensor, config) == [FeatureTensor |-> tensor, Configuration |-> config]

\* variant: the configuration is left out of the tie
CtrEqTensorOnly(self, other) == TensorEq(self.FeatureTensor, other.FeatureTensor)

CtrEq(self, other) ==
    /\ TensorEq(self.FeatureTensor, other.FeatureTensor)
    /\ ConfigEq(self.Configuration, other.Configuration)

CtrLess(self, other) ==
    \/ TensorLess(self.FeatureTensor, other.FeatureTensor)
    \/ /\ ~TensorLess(other.FeatureTensor, self.FeatureTensor)
       /\ ConfigLess(self.Configuration, other.Configuration)

CtrIsSimple(ctr) == IsSimple(ctr.FeatureTensor)

\* ---------------------------------------------------------- input sets
SeqsUpTo(S, n) == UNION {[1..k -> S] : k \in 0..n}

SplitLists == SeqsUpTo(BinarySplits, MaxListLen)

CatFeatureLists == SeqsUpTo(CatFeatureIds, MaxListLen)

Range(v) == {v[i] : i \in DOMAIN v}

\* a third tensor, built from the empty tensor by one call of each list mutator
InputTensors ==
    {AddCatFeatureList(AddBinarySplitList(EmptyTensor, splits), featureIds) :
        <<splits, featureIds>> \in
            {p \in SplitLists \X CatFeatureLists : Len(p[1]) + Len(p[2]) <= MaxListLen}}

\* the two tensors together hold at most MaxElements elements, or each of them
\* at most MaxPerTensor
Fits(o, tensor) ==
    \/ Size(tensor) + Size(obj[Other(o)]) <= MaxElements
    \/ Size(tensor) <= MaxPerTensor /\ Size(obj[Other(o)]) <= MaxPerTensor

Untracked == "-"

Track(name) == IF last = Untracked THEN last ELSE name

Mutated(name, o, tensor, pushedSplits, pushedCatFeatures) ==
    /\ Fits(o, tensor)
    /\ obj' = [obj EXCEPT ![o] = tensor]
    /\ added' = [added EXCEPT ![o] =
                    [Splits |-> @.Splits \cup pushedSplits,
                     CatFeatures |-> @.CatFeatures \cup pushedCatFeatures]]
    /\ last' = Track(name)

\* a const query: its result goes to the caller, the tensors are not written
Queried(name, result, type) ==
    /\ result \in type
    /\ last' = Track(name)
    /\ UNCHANGED <<obj, added>>

\* ---------------------------------------------------------------- actions
Init ==
    /\ obj = [o \in Objs |-> EmptyTensor]
    /\ added = [o \in Objs |-> [Splits |-> {}, CatFeatures |-> {}]]
    /\ last = "TFeatureTensor"

CallAddBinarySplit(o, bin) ==
    Mutated("AddBinarySplit", o, AddBinarySplit(obj[o], bin), {bin}, {})

CallAddBinarySplitList(o, splits) ==
    Mutated("AddBinarySplitList", o, AddBinarySplitList(obj[o], splits), Range(splits), {})

CallAddCatFeatureList(o, featureIds) ==
    Mutated("AddCatFeatureList", o, AddCatFeatureList(obj[o], featureIds), {}, Range(featureIds))

CallAddCatFeature(o, featureId) ==
    Mutated("AddCatFeature", o, AddCatFeature(obj[o], featureId), {}, {featureId})

\* o.AddTensor(tensor) with tensor the other object
CallAddTensor(o) ==
    Mutated("AddTensor", o, AddTensor(obj[o], obj[Other(o)]),
            Range(obj[Other(o)].Splits), Range(obj[Other(o)].CatFeatures))

\* What a range-for over vector reads while each iteration push_backs into the
\* same vector: the first element is read before any push; a push_back that
\* reallocates leaves the loop's iterators dangling, so every later read
\* returns whatever the freed buffer holds.
AliasedReads(vector, values) ==
    {r \in [1..Len(vector) -> values] : Len(vector) >= 1 => r[1] = vector[1]}

\* o.AddTensor(o)
CallAddTensorSelf(o) ==
    \E readSplits \in AliasedReads(obj[o].Splits, BinarySplits),
       readCatFeatures \in AliasedReads(obj[o].CatFeatures, CatFeatureIds) :
          Mutated("AddTensorSelf", o, AddTensorPushed(obj[o], readSplits, readCatFeatures),
                  Range(readSplits), Range(readCatFeatures))

CallIsSimple(o) == Queried("IsSimple", IsSimple(obj[o]), BOOLEAN)

CallIsEmpty(o) == Queried("IsEmpty", IsEmpty(obj[o]), BOOLEAN)

CallSize(o) == Queried("Size", Size(obj[o]), Nat)

CallGetComplexity(o) == Queried("GetComplexity", GetComplexity(obj[o]), Nat)

CallGetHash(o) == Queried("GetHash", GetHash(obj[o]), Nat)

CallIsSubset(o, other) == Queried("IsSubset", IsSubset(obj[o], obj[other]), BOOLEAN)

CallTensorEq(o, other) == Queried("operator==", TensorEq(obj[o], obj[other]), BOOLEAN)

CallTensorLess(o, other) == Queried("operator<", TensorLess(obj[o], obj[other]), BOOLEAN)

\* TCtr values are constructed from copies of the tensors and compared
CallCtrEq(config, otherConfig) ==
    Queried("TCtr::operator==",
            CtrEq(TCtr(obj["t"], config), TCtr(obj["u"], otherConfig)), BOOLEAN)

CallCtrLess(config, otherConfig) ==
    Queried("TCtr::operator<",
            CtrLess(TCtr(obj["t"], config), TCtr(obj["u"], otherConfig)), BOOLEAN)

CallCtrIsSimple(o, config) ==
    Queried("TCtr::IsSimple", CtrIsSimple(TCtr(obj[o], config)), BOOLEAN)

Next ==
    \/ \E o \in Objs, bin \in BinarySplits : CallAddBinarySplit(o, bin)
    \/ \E o \in Objs, splits \in SplitLists : CallAddBinarySplitList(o, splits)
    \/ \E o \in Objs, featureIds \in CatFeatureLists : CallAddCatFeatureList(o, featureIds)
    \/ \E o \in Objs, featureId \in CatFeatureIds : CallAddCatFeature(o, featureId)
    \/ \E o \in Objs : CallAddTensor(o)
    \/ \E o \in Objs : CallAddTensorSelf(o)
    \/ \E o \in Objs : CallIsSimple(o)
    \/ \E o \in Objs : CallIsEmpty(o)
    \/ \E o \in Objs : CallSize(o)
    \/ \E o \in Objs : CallGetComplexity(o)
    \/ \E o \in Objs : CallGetHash(o)
    \/ \E o \in Objs, other \in Objs : CallIsSubset(o, other)
    \/ \E o \in Objs, other \in Objs : CallTensorEq(o, other)
    \/ \E o \in Objs, other \in Objs : CallTensorLess(o, other)
    \/ \E config \in Configurations, otherConfig \in Configurations :
          CallCtrEq(config, otherConfig)
    \/ \E config \in Configurations, otherConfig \in Configurations :
          CallCtrLess(config, otherConfig)
    \/ \E o \in Objs, config \in Configurations : CallCtrIsSimple(o, config)

Spec == Init /\ [][Next]_vars

\* the same calls from the same construction, without the record of the calls
InitValues ==
    /\ obj = [o \in Objs |-> EmptyTensor]
    /\ added = [o \in Objs |-> [Splits |-> {}, CatFeatures |-> {}]]
    /\ last = Untracked

SpecValues == InitValues /\ [][Next]_vars

\* ===================================================================
\* Properties
\* ===================================================================
\* the order on splits the documentation states: (FeatureId, BinIdx, SplitType)
LexLess(a, b) ==
    \/ a.FeatureId < b.FeatureId
    \/ a.FeatureId = b.FeatureId /\ a.BinIdx < b.BinIdx
    \/ a.FeatureId = b.FeatureId /\ a.BinIdx = b.BinIdx /\ a.SplitType < b.SplitType

SplitSet(tensor) == Range(tensor.Splits)

CatSet(tensor) == Range(tensor.CatFeatures)

\* C1: canonical form. After any sequence of AddBinarySplit, AddCatFeature
\* (single or list) and AddTensor calls from the empty tensor, Splits is
\* strictly ascending in the (FeatureId, BinIdx, SplitType) order and
\* CatFeatures is strictly ascending, so neither holds two equal elements.
C1_CanonicalForm ==
    \A o \in Objs :
        /\ \A i \in 1..(Len(obj[o].Splits) - 1) :
              LexLess(obj[o].Splits[i], obj[o].Splits[i + 1])
        /\ \A i, j \in DOMAIN obj[o].Splits :
              i # j => obj[o].Splits[i] # obj[o].Splits[j]
        /\ \A i \in 1..(Len(obj[o].CatFeatures) - 1) :
              obj[o].CatFeatures[i] < obj[o].CatFeatures[i + 1]
        /\ \A i, j \in DOMAIN obj[o].CatFeatures :
              i # j => obj[o].CatFeatures[i] # obj[o].CatFeatures[j]

\* C1 witness: a list add has just left t with two splits beside a categorical id
C1_Witness ==
    /\ last = "AddBinarySplitList"
    /\ Len(obj["t"].Splits) = 2
    /\ Len(obj["t"].CatFeatures) = 1

\* C2: order-independence. Two tensors that received the same elements, in
\* whatever order and multiplicity, compare equal and hash equal; swapping two
\* consecutive adds never changes the result; and two tensors are equal iff
\* their sets of splits and their sets of categorical ids are equal.
C2_OrderIndependence ==
    /\ added["t"] = added["u"] =>
          /\ TensorEq(obj["t"], obj["u"])
          /\ GetHash(obj["t"]) = GetHash(obj["u"])
    /\ TensorEq(obj["t"], obj["u"]) <=>
          (SplitSet(obj["t"]) = SplitSet(obj["u"]) /\ CatSet(obj["t"]) = CatSet(obj["u"]))
    /\ \A a, b \in BinarySplits :
          TensorEq(AddBinarySplit(AddBinarySplit(obj["t"], a), b),
                   AddBinarySplit(AddBinarySplit(obj["t"], b), a))
    /\ \A a, b \in CatFeatureIds :
          TensorEq(AddCatFeature(AddCatFeature(obj["t"], a), b),
                   AddCatFeature(AddCatFeature(obj["t"], b), a))
    /\ \A a \in BinarySplits, b \in CatFeatureIds :
          TensorEq(AddCatFeature(AddBinarySplit(obj["t"], a), b),
                   AddBinarySplit(AddCatFeature(obj["t"], b), a))

\* C2 witness: both tensors received the same split and the same id, and hold
\* them in the same order
C2_Witness ==
    /\ added["t"] = added["u"]
    /\ obj["t"] = obj["u"]
    /\ Cardinality(added["t"].Splits) = 1
    /\ Cardinality(added["t"].CatFeatures) = 1

\* C3 (as stated): adding a split or a categorical id twice gives the tensor of
\* a single add, with the same Size and GetHash; adding an element already
\* present changes nothing; and t.AddTensor(t) leaves t unchanged.
C3_AddTwice ==
    \A o \in Objs :
        /\ \A s \in BinarySplits :
              LET once == AddBinarySplit(obj[o], s)
                  twice == AddBinarySplit(once, s)
              IN  /\ TensorEq(twice, once)
                  /\ Size(twice) = Size(once)
                  /\ GetHash(twice) = GetHash(once)
                  /\ s \in SplitSet(obj[o]) => TensorEq(once, obj[o])
        /\ \A c \in CatFeatureIds :
              LET once == AddCatFeature(obj[o], c)
                  twice == AddCatFeature(once, c)
              IN  /\ TensorEq(twice, once)
                  /\ Size(twice) = Size(once)
                  /\ GetHash(twice) = GetHash(once)
                  /\ c \in CatSet(obj[o]) => TensorEq(once, obj[o])

C3_SelfAddTensor == last' = "AddTensorSelf" => obj' = obj

C3_Idempotence == []C3_AddTwice /\ [][C3_SelfAddTensor]_vars

\* C8: derived counts. GetComplexity is the number of distinct categorical ids
\* plus min(number of distinct splits, 1); Size is the number of distinct
\* splits plus the number of distinct ids; IsEmpty iff Size = 0; IsSimple iff
\* Size = 1; and the documented examples give 3, 1, 3 and (Size 2, not simple,
\* complexity 2).
C8_Scenario ==
    AddCatFeature(
        AddBinarySplit(
            AddBinarySplit(EmptyTensor, TBinarySplit(1, 2, TakeGreater)),
            TBinarySplit(1, 2, TakeGreater)),
        7)

C8_FiveSplits ==
    AddBinarySplitList(EmptyTensor,
        <<TBinarySplit(4, 0, TakeBin), TBinarySplit(0, 3, TakeGreater),
          TBinarySplit(2, 1, TakeBin), TBinarySplit(0, 3, TakeBin),
          TBinarySplit(1, 1, TakeGreater)>>)

C8_TwoAndTwo ==
    AddCatFeatureList(
        AddBinarySplitList(EmptyTensor,
            <<TBinarySplit(1, 0, TakeBin), TBinarySplit(0, 1, TakeBin)>>),
        <<9, 4>>)

C8_DerivedCounts ==
    /\ \A o \in Objs :
          /\ GetComplexity(obj[o]) =
                Cardinality(added[o].CatFeatures)
                + (IF Cardinality(added[o].Splits) >= 1 THEN 1 ELSE 0)
          /\ Size(obj[o]) =
                Cardinality(added[o].Splits) + Cardinality(added[o].CatFeatures)
          /\ IsEmpty(obj[o]) <=> (Size(obj[o]) = 0)
          /\ IsSimple(obj[o]) <=> (Size(obj[o]) = 1)
    /\ GetComplexity(AddCatFeatureList(EmptyTensor, <<5, 3, 9>>)) = 3
    /\ GetComplexity(C8_FiveSplits) = 1
    /\ GetComplexity(C8_TwoAndTwo) = 3
    /\ C8_Scenario.Splits = <<TBinarySplit(1, 2, TakeGreater)>>
    /\ C8_Scenario.CatFeatures = <<7>>
    /\ Size(C8_Scenario) = 2
    /\ ~IsSimple(C8_Scenario)
    /\ GetComplexity(C8_Scenario) = 2

\* C8 witness: GetComplexity was called on t, which was given two splits and
\* one categorical id (complexity 2, Size 3)
C8_Witness ==
    /\ last = "GetComplexity"
    /\ Cardinality(added["t"].Splits) = 2
    /\ Cardinality(added["t"].CatFeatures) = 1
    /\ GetComplexity(obj["t"]) = 2

\* lexicographic order on two vectors, given the elements' order
SeqLexLess(a, b, Less(_, _)) ==
    \E k \in 1..Len(b) :
        /\ k <= Len(a) + 1
        /\ \A i \in 1..(k - 1) : a[i] = b[i]
        /\ k = Len(a) + 1 \/ Less(a[k], b[k])

NatLess(a, b) == a < b

TensorLexLess(a, b) ==
    \/ SeqLexLess(a.Splits, b.Splits, LexLess)
    \/ a.Splits = b.Splits /\ SeqLexLess(a.CatFeatures, b.CatFeatures, NatLess)

\* C4: AddTensor as a merge of values is commutative and associative, has the
\* empty tensor as identity on both sides, and the merged Splits and
\* CatFeatures are exactly the unions of the operands'.
C4_MergeOn(x, y, z) ==
    /\ TensorEq(AddTensor(x, y), AddTensor(y, x))
    /\ TensorEq(AddTensor(AddTensor(x, y), z), AddTensor(x, AddTensor(y, z)))
    /\ SplitSet(AddTensor(x, y)) = SplitSet(x) \cup SplitSet(y)
    /\ CatSet(AddTensor(x, y)) = CatSet(x) \cup CatSet(y)

C4_MergeAlgebra ==
    /\ \A v \in InputTensors :
          /\ C4_MergeOn(obj["t"], obj["u"], v)
          /\ C4_MergeOn(obj["t"], v, obj["u"])
          /\ C4_MergeOn(v, obj["t"], obj["u"])
    /\ \A o \in Objs :
          /\ TensorEq(AddTensor(obj[o], EmptyTensor), obj[o])
          /\ TensorEq(AddTensor(EmptyTensor, obj[o]), obj[o])

\* C4 witness: t and u share a split, and u holds a categorical id t lacks
C4_Witness ==
    /\ SplitSet(obj["t"]) \cap SplitSet(obj["u"]) # {}
    /\ CatSet(obj["u"]) # {}
    /\ CatSet(obj["t"]) = {}
    /\ ~TensorEq(AddTensor(obj["t"], obj["u"]), obj["t"])

\* C5: t.IsSubset(u) iff every split of t is a split of u and every
\* categorical id of t is a categorical id of u; both kinds count, and the
\* empty tensor is a subset of every tensor.
C5_SubsetOn(x, y) ==
    IsSubset(x, y) <=> (SplitSet(x) \subseteq SplitSet(y) /\ CatSet(x) \subseteq CatSet(y))

C5_IsSubset ==
    /\ \A a, b \in Objs : C5_SubsetOn(obj[a], obj[b])
    /\ \A o \in Objs, v \in InputTensors :
          /\ C5_SubsetOn(obj[o], v)
          /\ C5_SubsetOn(v, obj[o])
    /\ \A o \in Objs : IsSubset(EmptyTensor, obj[o])

\* C5 witness: the splits of t are among those of u but
\* a categorical id of t missing from u
C5_Witness ==
    /\ SplitSet(obj["t"]) # {}
    /\ SplitSet(obj["t"]) \subseteq SplitSet(obj["u"])
    /\ ~(CatSet(obj["t"]) \subseteq CatSet(obj["u"]))
    /\ ~IsSubset(obj["t"], obj["u"])

\* C6: IsSubset is reflexive and transitive; both operands of a merge are
\* subsets of its result; and no call removes an element: the tensor before
\* a step is a subset of the tensor after it and Size does not drop.
C6_Transitive(x, y, z) == (IsSubset(x, y) /\ IsSubset(y, z)) => IsSubset(x, z)

C6_SubsetOrder ==
    /\ \A o \in Objs : IsSubset(obj[o], obj[o])
    /\ \A v \in InputTensors :
          /\ IsSubset(v, v)
          /\ C6_Transitive(obj["t"], obj["u"], v)
          /\ C6_Transitive(obj["t"], v, obj["u"])
          /\ C6_Transitive(v, obj["t"], obj["u"])
          /\ IsSubset(obj["t"], AddTensor(obj["t"], v))
          /\ IsSubset(v, AddTensor(obj["t"], v))
    /\ IsSubset(obj["t"], AddTensor(obj["t"], obj["u"]))
    /\ IsSubset(obj["u"], AddTensor(obj["t"], obj["u"]))

\* every step is a call of an Add* mutator or of a const query
C6_Grows ==
    \A o \in Objs : IsSubset(obj[o], obj'[o]) /\ Size(obj[o]) <= Size(obj'[o])

C6_SubsetAndGrowth == []C6_SubsetOrder /\ [][C6_Grows]_vars

\* C6 witness: u holds a split and a categorical id, t only that split: the
\* adds that built u from a copy of t grew it into a proper superset
C6_Witness ==
    /\ Len(obj["t"].Splits) = 1
    /\ Len(obj["u"].CatFeatures) = 1
    /\ IsSubset(obj["t"], obj["u"])
    /\ ~IsSubset(obj["u"], obj["t"])

\* C7: operator< on TBinarySplit is the lexicographic order over (FeatureId,
\* BinIdx, SplitType), operator< on TFeatureTensor the lexicographic order
\* over Splits then CatFeatures; each is irreflexive, antisymmetric and
\* transitive, and a == b iff neither a < b nor b < a.
C7_SplitOrder(S) ==
    \A a, b, c \in S :
        /\ ~BinarySplitLess(a, a)
        /\ BinarySplitLess(a, b) => ~BinarySplitLess(b, a)
        /\ (BinarySplitLess(a, b) /\ BinarySplitLess(b, c)) => BinarySplitLess(a, c)
        /\ BinarySplitEq(a, b) <=> (~BinarySplitLess(a, b) /\ ~BinarySplitLess(b, a))
        /\ BinarySplitLess(a, b) <=> LexLess(a, b)

C7_TensorOrder(x, y, z) ==
    /\ ~TensorLess(x, x)
    /\ TensorLess(x, y) => ~TensorLess(y, x)
    /\ (TensorLess(x, y) /\ TensorLess(y, z)) => TensorLess(x, z)
    /\ TensorEq(x, y) <=> (~TensorLess(x, y) /\ ~TensorLess(y, x))
    /\ TensorLess(x, y) <=> TensorLexLess(x, y)

C7_StrictTotalOrder ==
    /\ C7_SplitOrder(SplitSet(obj["t"]) \cup SplitSet(obj["u"]))
    /\ \A v \in InputTensors :
          /\ C7_SplitOrder(SplitSet(obj["t"]) \cup SplitSet(v))
          /\ C7_TensorOrder(obj["t"], obj["u"], v)
          /\ C7_TensorOrder(obj["t"], v, obj["u"])
          /\ C7_TensorOrder(v, obj["t"], obj["u"])

\* C7 witness: two tensors with the same split, which the categorical ids
\* decide
C7_Witness ==
    /\ Len(obj["t"].Splits) = 1
    /\ obj["t"].Splits = obj["u"].Splits
    /\ obj["t"].CatFeatures # obj["u"].CatFeatures
    /\ TensorLess(obj["t"], obj["u"])

\* C9: TCtr values are equal iff their tensors and their configurations are
\* equal; a < b iff a's tensor is less, or the tensors are equal and a's
\* configuration is less; TCtr::IsSimple is the tensor's IsSimple.
C9_CtrOn(x, y) ==
    \A cx, cy \in Configurations :
        /\ CtrEq(TCtr(x, cx), TCtr(y, cy)) <=> (TensorEq(x, y) /\ cx = cy)
        /\ CtrLess(TCtr(x, cx), TCtr(y, cy)) <=>
              (TensorLess(x, y) \/ (TensorEq(x, y) /\ cx < cy))
        /\ CtrIsSimple(TCtr(x, cx)) <=> IsSimple(x)

C9_CtrLexicographic ==
    /\ \A a, b \in Objs : C9_CtrOn(obj[a], obj[b])
    /\ \A v \in InputTensors : C9_CtrOn(obj["t"], v) /\ C9_CtrOn(v, obj["t"])

\* C9 witness: equal non-empty tensors, which two different configurations
\* make unequal TCtr values
C9_Witness ==
    /\ ~IsEmpty(obj["t"])
    /\ TensorEq(obj["t"], obj["u"])
    /\ ~CtrEq(TCtr(obj["t"], 0), TCtr(obj["u"], MaxConfig))

\* C10: frame. AddBinarySplit (single or list) leaves every CatFeatures as it
\* was and AddCatFeature (single or list) every Splits; o.AddTensor(u) with u
\* another object leaves u as it was; the queries leave both tensors as they
\* were.
QueryNames ==
    {"IsSimple", "IsEmpty", "Size", "GetComplexity", "GetHash", "IsSubset",
     "operator==", "operator<"}

C10_Step ==
    /\ last' \in {"AddBinarySplit", "AddBinarySplitList"} =>
          \A o \in Objs : obj'[o].CatFeatures = obj[o].CatFeatures
    /\ last' \in {"AddCatFeature", "AddCatFeatureList"} =>
          \A o \in Objs : obj'[o].Splits = obj[o].Splits
    /\ last' = "AddTensor" =>
          \E o \in Objs :
              /\ obj'[o] = AddTensor(obj[o], obj[Other(o)])
              /\ obj'[Other(o)] = obj[Other(o)]
    /\ last' \in QueryNames => obj' = obj

C10_Frame == [][C10_Step]_vars

\* C10 witness: t.AddTensor(u) has run with u non-empty and different from t
C10_Witness ==
    /\ last = "AddTensor"
    /\ ~IsEmpty(obj["u"])
    /\ ~IsEmpty(obj["t"])
    /\ obj["t"] # obj["u"]

====
